---- MODULE Spec2Model ----
(***************************************************************************)
(* A model of the animeface GAN implementations.                           *)
(*                                                                         *)
(*  - implementations/GANILLA/utils.py and implementations/SPADE/utils.py: *)
(*    the train() loops, as a program counter walking the statements of    *)
(*    one iteration.  Tensors are symbolic terms (nested tuples whose head *)
(*    names the operation), so that a loss is the expression the code      *)
(*    builds, and autograd is the reachability of a module's parameters    *)
(*    in that expression, cut at detach().                                 *)
(*  - implementations/cGAN/model.py and implementations/pixelshuffle/      *)
(*    model.py: the networks as the sequence of their layers, each layer   *)
(*    acting on the shape of its input as the framework defines it.        *)
(***************************************************************************)
EXTENDS Integers, Sequences, FiniteSets, TLC

(* ------------------------------ bounds -------------------------------- *)
MaxIters   == 3
MaxB0      == 2
MaxBatches == 2
MaxSave    == 3
NumScale   == 2
MaxN       == 2
MaxLatent  == 2
MaxLabel   == 2

VARIABLES
    impl,           \* which program runs
    pc,             \* position in the program
    (* inputs of train() *)
    max_iters, nbatches, amp, save, E, kld_lambda, feat_lambda,
    (* state of train() *)
    scaler,         \* the GradScaler, or "None"
    b0,             \* batches_done as Status(max_iters) leaves it
    batches_done,   \* status.batches_done
    idx,            \* batches the current pass over the dataset has yielded
    env,            \* the tensors train() holds, as terms
    grad,           \* per module: the backward passes its .grad accumulates
    version,        \* per module: the optimizer updates applied to it
    (* observations *)
    iters,          \* iterations begun
    events,         \* the calls of the current iteration, in order
    steps,          \* the optimizer steps of the whole run, in order
    sampler_calls,  \* the calls of sampler(), in order
    saved,          \* the checkpoints written
    plots,          \* calls of status.plot_loss()
    (* the model.py programs *)
    N, latent_dim, label_dim, label_max,
    net,            \* the layers still to apply
    x,              \* the shape of the tensor flowing through the network
    img,            \* the shape of the Generator's output
    validity,       \* the shape of the validity output (pixelshuffle)
    trail           \* the shapes after each convolutional stage

trainVars == <<max_iters, nbatches, amp, save, E, kld_lambda, feat_lambda,
               scaler, b0, batches_done, idx, env, grad, version, iters, events,
               steps, sampler_calls, saved, plots>>
shapeVars == <<N, latent_dim, label_dim, label_max, net, x, img, validity, trail>>
vars == <<impl, pc, trainVars, shapeVars>>

Trainers == {"GANILLA", "SPADE"}
Modules  == {"GA", "GH", "DA", "DH", "G", "D", "E"}

(* ------------------------- tensors as terms --------------------------- *)
Leaf(n)         == <<n>>
App(m, a)       == <<m, a>>
App2(m, a, b)   == <<m, a, b>>
Detach(a)       == <<"detach", a>>
Cat(a, b)       == <<"cat", a, b>>
Add(a, b)       == <<"add", a, b>>
Mul(a, b)       == <<"mul", a, b>>
Div(a, b)       == <<"div", a, b>>
Item(a, i)      == <<"getitem", a, Leaf(ToString(i))>>
None            == Leaf("None")
Zero            == Leaf("0")

(* The parameters a backward pass from t reaches: every module applied on  *)
(* the way, the graph being cut at detach().                               *)
RECURSIVE Requires(_)
Requires(t) ==
    IF Len(t) = 1 \/ t[1] = "detach" THEN {}
    ELSE (IF t[1] \in Modules THEN {t[1]} ELSE {})
         \cup UNION { Requires(t[i]) : i \in 2..Len(t) }

(* Whether the operation op occurs in t.                                   *)
RECURSIVE Contains(_, _)
Contains(t, op) ==
    t[1] = op \/ \E i \in 2..Len(t) : Contains(t[i], op)

(* --------------------------- main(): wiring --------------------------- *)
(* The modules main() builds for the program.                              *)
Built ==
    IF impl = "GANILLA" THEN {"GA", "GH", "DA", "DH"}
    ELSE {"G", "D"} \cup (IF E THEN {"E"} ELSE {})

M_optimizer_D_holds_G ==
    IF impl = "GANILLA" THEN {"DA", "DH", "GA"} ELSE {"D", "G"}
optimizer_D ==
    IF impl = "GANILLA" THEN {"DA", "DH"} ELSE {"D"}

optimizer_G ==
    IF impl = "GANILLA" THEN {"GA", "GH"}
    ELSE IF E THEN {"G", "E"} ELSE {"G"}

Params(opt) == IF opt = "D" THEN optimizer_D ELSE optimizer_G

(* ----------------------- GANILLA: the two losses ----------------------- *)
anime == Leaf("anime")
human == Leaf("human")
cycle_lambda == Leaf("cycle_lambda")

(* generate images *)
GANILLA_generate ==
    LET AH == App("GH", anime)
        HA == App("GA", human)
    IN  [AH |-> AH, HA |-> HA, AHA |-> App("GA", AH), HAH |-> App("GH", HA)]

M_GANILLA_D_loss_no_detach(e) ==
    LET real_anime == Item(App("DA", anime), 0)
        real_human == Item(App("DH", human), 0)
        fake_anime == Item(App("DA", e.HA), 0)
        fake_human == Item(App("DH", e.AH), 0)
    IN  Add(App2("d_loss", real_anime, fake_anime),
            App2("d_loss", real_human, fake_human))
(* discriminator *)
GANILLA_D_loss(e) ==
    LET real_anime == Item(App("DA", anime), 0)
        real_human == Item(App("DH", human), 0)
        fake_anime == Item(App("DA", Detach(e.HA)), 0)
        fake_human == Item(App("DH", Detach(e.AH)), 0)
        adv_anime  == App2("d_loss", real_anime, fake_anime)
        adv_human  == App2("d_loss", real_human, fake_human)
    IN  Add(adv_anime, adv_human)

M_GANILLA_G_loss_one_cycle_weighted(e) ==
    LET fake_anime  == Item(App("DA", e.HA), 0)
        fake_human  == Item(App("DH", e.AH), 0)
    IN  Add(Add(Add(App("g_loss", fake_anime), App("g_loss", fake_human)),
                App2("l1", e.AHA, anime)),
            Mul(App2("l1", e.HAH, human), cycle_lambda))
(* generator *)
GANILLA_G_loss(e) ==
    LET fake_anime  == Item(App("DA", e.HA), 0)
        fake_human  == Item(App("DH", e.AH), 0)
        adv_anime   == App("g_loss", fake_anime)
        adv_human   == App("g_loss", fake_human)
        cycle_anime == App2("l1", e.AHA, anime)
        cycle_human == App2("l1", e.HAH, human)
    IN  Add(Add(adv_anime, adv_human),
            Mul(Add(cycle_anime, cycle_human), cycle_lambda))

(* ------------------------ SPADE: the two losses ------------------------ *)
rgb  == Leaf("rgb")
line == Leaf("line")
D_input(a, b) == Cat(a, b)

(* z, mu, logvar = E(rgb), or z = sampler((rgb.size(0), z_dim)) *)
SPADE_latent ==
    IF E
    THEN [z |-> Item(App("E", rgb), 0), mu |-> Item(App("E", rgb), 1),
          logvar |-> Item(App("E", rgb), 2)]
    ELSE [z |-> Leaf("sampler"), mu |-> None, logvar |-> None]

(* The calls of sampler() the Discriminator block makes.                   *)
SPADE_train_sampler ==
    IF E THEN <<>>
    ELSE <<[at |-> "train", shape |-> <<"rgb.size(0)", "z_dim">>]>>

(* The calls of sampler() the test block makes.                            *)
SPADE_test_sampler ==
    IF E THEN <<>>
    ELSE <<[at |-> "test", shape |-> <<"test[0].size(0)", "z_dim">>]>>

SPADE_fake(z) == App2("G", z, line)

(* The loop over zip(real_outs, fake_outs) of the Discriminator block.     *)
RECURSIVE SPADE_D_sum(_, _, _)
SPADE_D_sum(real_outs, fake_outs, n) ==
    IF n = 0 THEN Zero
    ELSE Add(SPADE_D_sum(real_outs, fake_outs, n - 1),
             Div(App2("d_loss", Item(Item(real_outs, n - 1), 0),
                                Item(Item(fake_outs, n - 1), 0)),
                 Leaf("d_num_scale")))

SPADE_D_loss(e) ==
    LET real_outs == App("D", D_input(line, rgb))
        fake_outs == App("D", D_input(line, Detach(e.fake)))
    IN  SPADE_D_sum(real_outs, fake_outs, NumScale)

(* The loop over zip(real_outs, fake_outs) of the Generator block.         *)
RECURSIVE SPADE_G_sum(_, _, _)
SPADE_G_sum(real_outs, fake_outs, n) ==
    IF n = 0 THEN Zero
    ELSE LET acc  == SPADE_G_sum(real_outs, fake_outs, n - 1)
             gan  == Add(acc, Div(App("g_loss", Item(Item(fake_outs, n - 1), 0)),
                                  Leaf("d_num_scale")))
             feat == App2("feature_matching", Item(Item(real_outs, n - 1), 1),
                                              Item(Item(fake_outs, n - 1), 1))
         IN  IF feat_lambda > 0
             THEN Add(gan, Mul(Div(feat, Leaf("d_num_scale")), Leaf("feat_lambda")))
             ELSE gan

KLD(e) == Mul(App2("KL_divergence", e.mu, e.logvar), Leaf("kld_lambda"))

M_SPADE_G_loss_kld_unguarded(e) ==
    LET real_outs == App("D", D_input(line, rgb))
        fake_outs == App("D", D_input(line, e.fake))
        G_loss    == SPADE_G_sum(real_outs, fake_outs, NumScale)
    IN  IF E THEN Add(G_loss, KLD(e)) ELSE G_loss
SPADE_G_loss(e) ==
    LET real_outs == App("D", D_input(line, rgb))
        fake_outs == App("D", D_input(line, e.fake))
        G_loss    == SPADE_G_sum(real_outs, fake_outs, NumScale)
    IN  IF E /\ kld_lambda > 0 THEN Add(G_loss, KLD(e)) ELSE G_loss

(* ------------------------------ Status -------------------------------- *)
(* utils.Status: batches_done after Status(max_iters), and after update(). *)
Status_init == 0..MaxB0
Status_update(n) == n + 1

(* ------------------------------- train -------------------------------- *)
GradScaler(on) == IF on THEN "GradScaler" ELSE "None"

EmptyEnv ==
    [AH |-> None, HA |-> None, AHA |-> None, HAH |-> None,
     z |-> None, mu |-> None, logvar |-> None, fake |-> None,
     D_loss |-> None, G_loss |-> None]

NoShape == <<>>

TrainInit ==
    /\ impl \in Trainers
    /\ pc = "while"
    /\ max_iters \in 0..MaxIters
    /\ nbatches \in 0..MaxBatches
    /\ amp \in BOOLEAN
    /\ save \in 1..MaxSave
    /\ E \in (IF impl = "SPADE" THEN BOOLEAN ELSE {FALSE})
    /\ kld_lambda \in (IF impl = "SPADE" THEN {0, 1} ELSE {0})
    /\ feat_lambda \in (IF impl = "SPADE" THEN {0, 1} ELSE {0})
    /\ scaler = GradScaler(amp)
    /\ b0 \in Status_init
    /\ batches_done = b0
    /\ idx = 0
    /\ env = EmptyEnv
    /\ grad = [m \in Modules |-> {}]
    /\ version = [m \in Modules |-> 0]
    /\ iters = 0
    /\ events = <<>>
    /\ steps = <<>>
    /\ sampler_calls = <<>>
    /\ saved = {}
    /\ plots = 0
    /\ N = 0 /\ latent_dim = 0 /\ label_dim = 0 /\ label_max = 0
    /\ net = <<>> /\ x = NoShape /\ img = NoShape /\ validity = NoShape
    /\ trail = <<>>

(* while status.batches_done < max_iters: *)
WhileTest ==
    /\ impl \in Trainers /\ pc = "while"
    /\ IF batches_done < max_iters
       THEN pc' = "for" /\ idx' = 0
       ELSE pc' = "plot" /\ idx' = idx
    /\ UNCHANGED <<impl, max_iters, nbatches, amp, save, E, kld_lambda,
                   feat_lambda, scaler, b0, batches_done, env, grad, version,
                   iters, events, steps, sampler_calls, saved, plots, shapeVars>>

(* for ... in dataset: the next batch, or the end of the pass *)
ForNext ==
    /\ impl \in Trainers /\ pc = "for"
    /\ IF idx < nbatches
       THEN /\ pc' = "zero_grad"
            /\ idx' = idx + 1
            /\ iters' = iters + 1
            /\ events' = <<>>
       ELSE /\ pc' = "while"
            /\ UNCHANGED <<idx, iters, events>>
    /\ UNCHANGED <<impl, max_iters, nbatches, amp, save, E, kld_lambda,
                   feat_lambda, scaler, b0, batches_done, env, grad, version,
                   steps, sampler_calls, saved, plots, shapeVars>>

(* optimizer_D.zero_grad(); optimizer_G.zero_grad() *)
ZeroGrad ==
    /\ impl \in Trainers /\ pc = "zero_grad"
    /\ grad' = [m \in Modules |->
                   IF m \in optimizer_D \cup optimizer_G THEN {} ELSE grad[m]]
    /\ events' = events \o (IF impl = "GANILLA"
                            THEN << <<"zero_grad", "D">>, <<"zero_grad", "G">> >>
                            ELSE << <<"zero_grad", "G">>, <<"zero_grad", "D">> >>)
    /\ pc' = "D_forward"
    /\ UNCHANGED <<impl, max_iters, nbatches, amp, save, E, kld_lambda,
                   feat_lambda, scaler, b0, batches_done, idx, env, version,
                   iters, steps, sampler_calls, saved, plots, shapeVars>>

(* the first autocast block: the images and D_loss *)
D_forward ==
    /\ impl \in Trainers /\ pc = "D_forward"
    /\ IF impl = "GANILLA"
       THEN LET g == GANILLA_generate
                e == [env EXCEPT !.AH = g.AH, !.HA = g.HA,
                                 !.AHA = g.AHA, !.HAH = g.HAH]
            IN  /\ env' = [e EXCEPT !.D_loss = GANILLA_D_loss(e)]
                /\ UNCHANGED sampler_calls
       ELSE LET l == SPADE_latent
                e == [env EXCEPT !.z = l.z, !.mu = l.mu, !.logvar = l.logvar,
                                 !.fake = SPADE_fake(l.z)]
            IN  /\ env' = [e EXCEPT !.D_loss = SPADE_D_loss(e)]
                /\ sampler_calls' = sampler_calls \o SPADE_train_sampler
    /\ pc' = "D_backward"
    /\ UNCHANGED <<impl, max_iters, nbatches, amp, save, E, kld_lambda,
                   feat_lambda, scaler, b0, batches_done, idx, grad, version,
                   iters, events, steps, saved, plots, shapeVars>>

(* scaler.scale(loss).backward(), or loss.backward() *)
Backward(loss, at, next) ==
    /\ impl \in Trainers /\ pc = at
    /\ grad' = [m \in Modules |->
                   IF m \in Requires(env[loss])
                   THEN grad[m] \cup {<<iters, loss>>} ELSE grad[m]]
    /\ events' = Append(events, IF scaler # "None"
                                THEN <<"scaler.scale.backward", loss>>
                                ELSE <<"backward", loss>>)
    /\ pc' = next
    /\ UNCHANGED <<impl, max_iters, nbatches, amp, save, E, kld_lambda,
                   feat_lambda, scaler, b0, batches_done, idx, env, version,
                   iters, steps, sampler_calls, saved, plots, shapeVars>>

D_backward == Backward("D_loss", "D_backward", "D_step")

(* scaler.step(optimizer), which leaves the step out when the gradients    *)
(* hold an inf or a NaN, or optimizer.step()                               *)
Step(opt, at, next) ==
    /\ impl \in Trainers /\ pc = at
    /\ \E applied \in (IF scaler # "None" THEN BOOLEAN ELSE {TRUE}) :
          version' = [m \in Modules |->
                         IF applied /\ m \in Params(opt) /\ grad[m] # {}
                         THEN version[m] + 1 ELSE version[m]]
    /\ events' = Append(events, IF scaler # "None"
                                THEN <<"scaler.step", opt>>
                                ELSE <<"step", opt>>)
    /\ steps' = Append(steps, opt)
    /\ pc' = next
    /\ UNCHANGED <<impl, max_iters, nbatches, amp, save, E, kld_lambda,
                   feat_lambda, scaler, b0, batches_done, idx, env, grad,
                   iters, sampler_calls, saved, plots, shapeVars>>

M_D_step_steps_G == Step("G", "D_step", "G_forward")
D_step == Step("D", "D_step", "G_forward")

(* the second autocast block: G_loss *)
G_forward ==
    /\ impl \in Trainers /\ pc = "G_forward"
    /\ env' = [env EXCEPT !.G_loss = IF impl = "GANILLA"
                                     THEN GANILLA_G_loss(env)
                                     ELSE SPADE_G_loss(env)]
    /\ pc' = "G_backward"
    /\ UNCHANGED <<impl, max_iters, nbatches, amp, save, E, kld_lambda,
                   feat_lambda, scaler, b0, batches_done, idx, grad, version,
                   iters, events, steps, sampler_calls, saved, plots, shapeVars>>

G_backward == Backward("G_loss", "G_backward", "G_step")

G_step == Step("G", "G_step", "save")

(* The modules whose state_dict() the save block writes.                   *)
Checkpointed ==
    IF impl = "GANILLA" THEN {"GA", "GH"}
    ELSE {"G"} \cup (IF E THEN {"E"} ELSE {})

M_SaveDue_counts_this_batch == (batches_done + 1) % save = 0
(* if status.batches_done % save == 0: *)
SaveDue == batches_done % save = 0

(* The test block of SPADE assigns z and fake again.                       *)
SPADE_test(e) ==
    LET z == IF E THEN Item(App("E", Leaf("test[0]")), 0) ELSE Leaf("sampler")
    IN  [e EXCEPT !.z = z, !.fake = App2("G", z, Leaf("test[1]"))]

(* # save *)
Save ==
    /\ impl \in Trainers /\ pc = "save"
    /\ IF SaveDue
       THEN /\ saved' = saved \cup
                 {[label |-> batches_done, iter |-> iters,
                   params |-> [m \in Checkpointed |-> version[m]]]}
            /\ events' = Append(events, <<"save", "result">>)
            /\ IF impl = "SPADE"
               THEN /\ env' = SPADE_test(env)
                    /\ sampler_calls' = sampler_calls \o SPADE_test_sampler
               ELSE UNCHANGED <<env, sampler_calls>>
       ELSE UNCHANGED <<saved, events, env, sampler_calls>>
    /\ pc' = "status_update"
    /\ UNCHANGED <<impl, max_iters, nbatches, amp, save, E, kld_lambda,
                   feat_lambda, scaler, b0, batches_done, idx, grad, version,
                   iters, steps, plots, shapeVars>>

(* status.update() with the two losses *)
StatusUpdate ==
    /\ impl \in Trainers /\ pc = "status_update"
    /\ batches_done' = Status_update(batches_done)
    /\ events' = Append(events, <<"status.update", "loss_dict">>)
    /\ pc' = "scaler_update"
    /\ UNCHANGED <<impl, max_iters, nbatches, amp, save, E, kld_lambda,
                   feat_lambda, scaler, b0, idx, env, grad, version, iters,
                   steps, sampler_calls, saved, plots, shapeVars>>

M_ScalerUpdate_left_out ==
    /\ impl \in Trainers /\ pc = "scaler_update"
    /\ pc' = "break"
    /\ UNCHANGED <<impl, trainVars, shapeVars>>
(* if scaler is not None: scaler.update() *)
ScalerUpdate ==
    /\ impl \in Trainers /\ pc = "scaler_update"
    /\ events' = IF scaler # "None"
                 THEN Append(events, <<"scaler.update", "">>) ELSE events
    /\ pc' = "break"
    /\ UNCHANGED <<impl, max_iters, nbatches, amp, save, E, kld_lambda,
                   feat_lambda, scaler, b0, batches_done, idx, env, grad,
                   version, iters, steps, sampler_calls, saved, plots, shapeVars>>

M_BreakTest_never_breaks ==
    /\ impl \in Trainers /\ pc = "break"
    /\ pc' = "for"
    /\ UNCHANGED <<impl, trainVars, shapeVars>>
(* if status.batches_done == max_iters: break *)
BreakTest ==
    /\ impl \in Trainers /\ pc = "break"
    /\ pc' = IF batches_done = max_iters THEN "plot" ELSE "for"
    /\ UNCHANGED <<impl, trainVars, shapeVars>>

(* status.plot_loss() *)
PlotLoss ==
    /\ impl \in Trainers /\ pc = "plot"
    /\ plots' = plots + 1
    /\ pc' = "done"
    /\ UNCHANGED <<impl, max_iters, nbatches, amp, save, E, kld_lambda,
                   feat_lambda, scaler, b0, batches_done, idx, env, grad,
                   version, iters, events, steps, sampler_calls, saved,
                   shapeVars>>

TrainNext ==
    \/ WhileTest \/ ForNext \/ ZeroGrad
    \/ D_forward \/ D_backward \/ D_step
    \/ G_forward \/ G_backward \/ G_step
    \/ Save \/ StatusUpdate \/ ScalerUpdate \/ BreakTest \/ PlotLoss

(* ------------------- model.py: layers acting on shapes ----------------- *)
Networks == {"cGAN", "pixelshuffle"}
Error == <<-1>>

ConvTranspose2d(cin, cout, k, s, p) ==
    [kind |-> "ConvTranspose2d", cin |-> cin, cout |-> cout, k |-> k, s |-> s, p |-> p]
Conv2d(cin, cout, k, s, p) ==
    [kind |-> "Conv2d", cin |-> cin, cout |-> cout, k |-> k, s |-> s, p |-> p]
BatchNorm2d(c) ==
    [kind |-> "BatchNorm2d", cin |-> c, cout |-> c, k |-> 0, s |-> 0, p |-> 0]
PixelShuffle(r) ==
    [kind |-> "PixelShuffle", cin |-> 0, cout |-> 0, k |-> r, s |-> 0, p |-> 0]
Activation(name) ==
    [kind |-> name, cin |-> 0, cout |-> 0, k |-> 0, s |-> 0, p |-> 0]

(* The output size of a transposed convolution (dilation 1, no output      *)
(* padding).                                                               *)
ConvTranspose2dOut(h, k, s, p) == (h - 1) * s - 2 * p + k

(* The output size of a convolution (dilation 1).                          *)
Conv2dOut(h, k, s, p) == ((h + 2 * p - k) \div s) + 1

(* The shape a layer returns for an input of shape shp, Error where the     *)
(* framework raises.                                                       *)
Apply(l, shp) ==
    IF shp = Error \/ Len(shp) # 4 THEN Error
    ELSE LET n == shp[1]  c == shp[2]  h == shp[3]  w == shp[4] IN
         CASE l.kind = "ConvTranspose2d" ->
                  IF c # l.cin THEN Error
                  ELSE <<n, l.cout, ConvTranspose2dOut(h, l.k, l.s, l.p),
                                    ConvTranspose2dOut(w, l.k, l.s, l.p)>>
           [] l.kind = "Conv2d" ->
                  IF c # l.cin \/ h + 2 * l.p < l.k \/ w + 2 * l.p < l.k THEN Error
                  ELSE <<n, l.cout, Conv2dOut(h, l.k, l.s, l.p),
                                    Conv2dOut(w, l.k, l.s, l.p)>>
           [] l.kind = "BatchNorm2d" ->
                  IF c # l.cin \/ n * h * w = 1 THEN Error ELSE shp
           [] l.kind = "PixelShuffle" ->
                  IF c % (l.k * l.k) # 0 THEN Error
                  ELSE <<n, c \div (l.k * l.k), h * l.k, w * l.k>>
           [] OTHER -> shp

(* torch.cat([a, b], dim=1) *)
CatDim1(a, b) ==
    IF a = Error \/ b = Error \/ Len(a) # Len(b) THEN Error
    ELSE IF \E i \in 1..Len(a) : i # 2 /\ a[i] # b[i] THEN Error
    ELSE IF Len(a) = 2 THEN <<a[1], a[2] + b[2]>>
    ELSE <<a[1], a[2] + b[2], a[3], a[4]>>

(* x.view(x.size(0), x.size(1), 1, 1) *)
View11(shp) == IF shp = Error THEN Error ELSE <<shp[1], shp[2], 1, 1>>

(* ---------------------------- cGAN/model.py ---------------------------- *)
cGAN_Generator_conv(latent, labels) ==
    << ConvTranspose2d(latent + labels, 1024, 4, 1, 0), BatchNorm2d(1024), Activation("ReLU"),
       ConvTranspose2d(1024, 512, 4, 2, 1), BatchNorm2d(512), Activation("ReLU"),
       ConvTranspose2d(512, 256, 4, 2, 1), BatchNorm2d(256), Activation("ReLU"),
       ConvTranspose2d(256, 128, 4, 2, 1), BatchNorm2d(128), Activation("ReLU"),
       ConvTranspose2d(128, 64, 4, 2, 1), BatchNorm2d(64), Activation("ReLU"),
       ConvTranspose2d(64, 3, 4, 2, 1), Activation("Tanh") >>

cGAN_Discriminator_conv(labels) ==
    << Conv2d(3 + labels, 64, 4, 2, 1), Activation("LeakyReLU"),
       Conv2d(64, 128, 4, 2, 1), BatchNorm2d(128), Activation("LeakyReLU"),
       Conv2d(128, 256, 4, 2, 1), BatchNorm2d(256), Activation("LeakyReLU"),
       Conv2d(256, 512, 4, 2, 1), BatchNorm2d(512), Activation("LeakyReLU"),
       Conv2d(512, 1024, 4, 2, 1), BatchNorm2d(1024), Activation("LeakyReLU"),
       Conv2d(1024, 1, 4, 1, 0) >>

M_expand_label_64(n, labels) == <<(n * labels) \div labels, labels, 64, 64>>
(* label.view(-1, self.label_dim, 1, 1).repeat(1, 1, 128, 128), for a      *)
(* label of shape (n, labels)                                              *)
expand_label(n, labels) == <<(n * labels) \div labels, labels, 128, 128>>

(* ------------------------ pixelshuffle/model.py ------------------------ *)
M_UpSample_conv_to_out(in_channel, out_channel) ==
    << Conv2d(in_channel, out_channel, 3, 1, 1), BatchNorm2d(out_channel),
       PixelShuffle(2), Activation("PReLU") >>
UpSample(in_channel, out_channel) ==
    << Conv2d(in_channel, out_channel * 4, 3, 1, 1), BatchNorm2d(out_channel * 4),
       PixelShuffle(2), Activation("PReLU") >>

PS_Generator_head(latent) ==
    << ConvTranspose2d(latent, 1024, 4, 1, 0), BatchNorm2d(1024), Activation("ReLU") >>

PS_Generator_body ==
    UpSample(1024, 512) \o UpSample(512, 256) \o UpSample(256, 128)
        \o UpSample(128, 64) \o UpSample(64, 64)

PS_Generator_tail == << Conv2d(64, 3, 9, 1, 4) >>

PS_Discriminator_conv ==
    << Conv2d(3, 64, 4, 2, 1), Activation("LeakyReLU"),
       Conv2d(64, 128, 4, 2, 1), BatchNorm2d(128), Activation("LeakyReLU"),
       Conv2d(128, 256, 4, 2, 1), BatchNorm2d(256), Activation("LeakyReLU"),
       Conv2d(256, 512, 4, 2, 1), BatchNorm2d(512), Activation("LeakyReLU"),
       Conv2d(512, 1024, 4, 2, 1), BatchNorm2d(1024), Activation("LeakyReLU") >>

PS_validity_layer == Conv2d(1024, 1, 4, 1, 0)

(* nn.Embedding(label_dim, latent_dim) on labels of shape (n,), the largest *)
(* of them being largest                                                   *)
label_embed(n, labels, latent, largest) ==
    IF largest >= labels THEN Error ELSE <<n, latent>>

(* torch.mul of two 2-d tensors, with broadcasting                         *)
Mul2(a, b) ==
    IF a = Error \/ b = Error THEN Error
    ELSE IF \E i \in 1..2 : a[i] # b[i] /\ a[i] # 1 /\ b[i] # 1 THEN Error
    ELSE <<IF a[1] = 1 THEN b[1] ELSE a[1], IF a[2] = 1 THEN b[2] ELSE a[2]>>

(* nn.AdaptiveAvgPool2d((1, 1)) *)
avg_pool(shp) == IF shp = Error THEN Error ELSE <<shp[1], shp[2], 1, 1>>

(* x.view(x.size(0), -1) *)
Flatten(shp) == IF shp = Error THEN Error ELSE <<shp[1], shp[2] * shp[3] * shp[4]>>

(* nn.Linear(1024, label_dim) *)
label_layer(shp, labels) ==
    IF shp = Error \/ shp[2] # 1024 THEN Error ELSE <<shp[1], labels>>

(* ------------------- model.py: the __main__ programs ------------------- *)
ShapeInit ==
    /\ impl \in Networks
    /\ pc = "G.input"
    /\ N \in 1..MaxN
    /\ latent_dim \in 1..MaxLatent
    /\ label_dim \in 1..MaxLabel
    /\ label_max \in (IF impl = "pixelshuffle" THEN 0..MaxLabel ELSE {0})
    /\ net = <<>> /\ x = NoShape /\ img = NoShape /\ validity = NoShape
    /\ trail = <<>>
    /\ max_iters = 0 /\ nbatches = 0 /\ amp = FALSE /\ save = 1 /\ E = FALSE
    /\ kld_lambda = 0 /\ feat_lambda = 0 /\ scaler = "None" /\ b0 = 0
    /\ batches_done = 0 /\ idx = 0 /\ env = EmptyEnv
    /\ grad = [m \in Modules |-> {}] /\ version = [m \in Modules |-> 0]
    /\ iters = 0 /\ events = <<>> /\ steps = <<>> /\ sampler_calls = <<>>
    /\ saved = {} /\ plots = 0

(* The position after a statement that left shape shp: the framework's     *)
(* exception ends the program.                                             *)
After(shp, next) == IF shp = Error THEN "raised" ELSE next

(* cGAN Generator.forward: torch.cat([noise, label], dim=1) *)
cGAN_G_cat ==
    /\ impl = "cGAN" /\ pc = "G.input"
    /\ x' = CatDim1(<<N, latent_dim>>, <<N, label_dim>>)
    /\ pc' = After(x', "G.view")
    /\ UNCHANGED <<impl, trainVars, N, latent_dim, label_dim, label_max, net,
                   img, validity, trail>>

(* pixelshuffle Generator.forward: torch.mul(noise, self.label_embed(label)) *)
PS_G_embed_mul ==
    /\ impl = "pixelshuffle" /\ pc = "G.input"
    /\ x' = Mul2(<<N, latent_dim>>, label_embed(N, label_dim, latent_dim, label_max))
    /\ pc' = After(x', "G.view")
    /\ UNCHANGED <<impl, trainVars, N, latent_dim, label_dim, label_max, net,
                   img, validity, trail>>

(* Generator.forward: x.view(x.size(0), x.size(1), 1, 1), entering the      *)
(* layers                                                                  *)
G_view ==
    /\ impl \in Networks /\ pc = "G.view"
    /\ x' = View11(x)
    /\ trail' = <<x'>>
    /\ net' = IF impl = "cGAN"
              THEN cGAN_Generator_conv(latent_dim, label_dim)
              ELSE PS_Generator_head(latent_dim) \o PS_Generator_body
                       \o PS_Generator_tail
    /\ pc' = After(x', "G.layers")
    /\ UNCHANGED <<impl, trainVars, N, latent_dim, label_dim, label_max,
                   img, validity>>

Resizes(l) == l.kind \in {"ConvTranspose2d", "Conv2d", "PixelShuffle"}

(* nn.Sequential: the next layer *)
ApplyLayer ==
    /\ impl \in Networks /\ pc \in {"G.layers", "D.layers"}
    /\ net # <<>>
    /\ x' = Apply(Head(net), x)
    /\ net' = Tail(net)
    /\ trail' = IF Resizes(Head(net)) THEN Append(trail, x') ELSE trail
    /\ pc' = After(x', pc)
    /\ UNCHANGED <<impl, trainVars, N, latent_dim, label_dim, label_max,
                   img, validity>>

(* output = model(noise, label) *)
G_return ==
    /\ impl \in Networks /\ pc = "G.layers" /\ net = <<>>
    /\ img' = x
    /\ pc' = "D.input"
    /\ UNCHANGED <<impl, trainVars, N, latent_dim, label_dim, label_max, net,
                   x, validity, trail>>

(* cGAN Discriminator.forward: the label expanded and concatenated *)
cGAN_D_cat ==
    /\ impl = "cGAN" /\ pc = "D.input"
    /\ x' = CatDim1(img, expand_label(N, label_dim))
    /\ trail' = <<x'>>
    /\ net' = cGAN_Discriminator_conv(label_dim)
    /\ pc' = After(x', "D.layers")
    /\ UNCHANGED <<impl, trainVars, N, latent_dim, label_dim, label_max,
                   img, validity>>

(* pixelshuffle Discriminator.forward: x = self.conv(img) *)
PS_D_input ==
    /\ impl = "pixelshuffle" /\ pc = "D.input"
    /\ x' = img
    /\ trail' = <<x'>>
    /\ net' = PS_Discriminator_conv
    /\ pc' = "D.layers"
    /\ UNCHANGED <<impl, trainVars, N, latent_dim, label_dim, label_max,
                   img, validity>>

(* cGAN Discriminator.forward returns *)
cGAN_D_return ==
    /\ impl = "cGAN" /\ pc = "D.layers" /\ net = <<>>
    /\ pc' = "done"
    /\ UNCHANGED <<impl, trainVars, shapeVars>>

(* validity = self.validity_layer(x) *)
PS_D_validity ==
    /\ impl = "pixelshuffle" /\ pc = "D.layers" /\ net = <<>>
    /\ validity' = Apply(PS_validity_layer, x)
    /\ pc' = After(validity', "D.pool")
    /\ UNCHANGED <<impl, trainVars, N, latent_dim, label_dim, label_max, net,
                   x, img, trail>>

(* x = self.avg_pool(x); x = x.view(x.size(0), -1) *)
PS_D_pool ==
    /\ impl = "pixelshuffle" /\ pc = "D.pool"
    /\ x' = Flatten(avg_pool(x))
    /\ pc' = After(x', "D.label")
    /\ UNCHANGED <<impl, trainVars, N, latent_dim, label_dim, label_max, net,
                   img, validity, trail>>

(* label = self.label_layer(x); return validity, label *)
PS_D_label ==
    /\ impl = "pixelshuffle" /\ pc = "D.label"
    /\ x' = label_layer(x, label_dim)
    /\ pc' = After(x', "done")
    /\ UNCHANGED <<impl, trainVars, N, latent_dim, label_dim, label_max, net,
                   img, validity, trail>>

ShapeNext ==
    \/ cGAN_G_cat \/ PS_G_embed_mul \/ G_view \/ ApplyLayer \/ G_return
    \/ cGAN_D_cat \/ PS_D_input \/ cGAN_D_return
    \/ PS_D_validity \/ PS_D_pool \/ PS_D_label

(* ---------------------------- specification --------------------------- *)
Init == TrainInit \/ ShapeInit
Next == TrainNext \/ ShapeNext
Spec == Init /\ [][Next]_vars
(* train() is sequential code: a statement that can run does run.          *)
FairSpec == Spec /\ WF_vars(Next)

(* ------------------------------ properties ---------------------------- *)
Max(a, b) == IF a >= b THEN a ELSE b

IsStep(e)     == e[1] \in {"step", "scaler.step"}
IsSetup(e)    == e[1] = "zero_grad"
IsSave(e)     == e[1] = "save"
NotSetupOrSave(e) == ~IsSetup(e) /\ ~IsSave(e)
NotSetup(e)   == ~IsSetup(e)

(* The positions of an iteration that follow the generator step.           *)
AfterSteps == {"save", "status_update", "scaler_update", "break"}
(* The positions between iterations.                                       *)
Between == {"while", "for", "plot", "done"}

(* C1: in GANILLA and SPADE train(), the optimizer steps of a run are       *)
(* D, G, D, G, ...: each iteration makes exactly one discriminator step     *)
(* and then exactly one generator step, through optimizer.step() or         *)
(* scaler.step(optimizer), and no optimizer is stepped twice in a row.      *)
Thm_C1 ==
    impl \in Trainers =>
        /\ \A i \in 1..Len(steps) : steps[i] = IF i % 2 = 1 THEN "D" ELSE "G"
        /\ pc \in AfterSteps \cup Between => Len(steps) = 2 * iters
        /\ pc \in AfterSteps =>
              \E how \in {"step", "scaler.step"} :
                  SelectSeq(events, IsStep) = << <<how, "D">>, <<how, "G">> >>
        /\ pc \in {"zero_grad", "D_forward", "D_backward", "D_step"} =>
              /\ Len(steps) = 2 * (iters - 1)
              /\ SelectSeq(events, IsStep) = <<>>
        /\ pc \in {"G_forward", "G_backward", "G_step"} =>
              Len(steps) = 2 * iters - 1

Wit_C1 ==
    /\ impl \in Trainers /\ pc = "break" /\ iters = 2
    /\ steps = <<"D", "G", "D", "G">>

(* C2: in GANILLA train(), the generator loss of an iteration is            *)
(* adv(DA(GA(human))) + adv(DH(GH(anime)))                                  *)
(*   + cycle_lambda * (L1(GA(GH(anime)), anime) + L1(GH(GA(human)), human)) *)
(* so each cycle term compares an input with its round trip through the     *)
(* other domain's generator and then its own, and cycle_lambda weights the  *)
(* two cycle terms and nothing else.                                        *)
Thm_C2 ==
    (impl = "GANILLA" /\ pc \in {"G_backward", "G_step"} \cup AfterSteps) =>
        env.G_loss =
          <<"add",
            <<"add",
              <<"g_loss", <<"getitem", <<"DA", <<"GA", <<"human">>>>>>, <<"0">>>>>>,
              <<"g_loss", <<"getitem", <<"DH", <<"GH", <<"anime">>>>>>, <<"0">>>>>> >>,
            <<"mul",
              <<"add",
                <<"l1", <<"GA", <<"GH", <<"anime">>>>>>, <<"anime">>>>,
                <<"l1", <<"GH", <<"GA", <<"human">>>>>>, <<"human">>>> >>,
              <<"cycle_lambda">> >> >>

Wit_C2 == impl = "GANILLA" /\ pc = "G_step" /\ iters = 2

IsTrainCall(c) == c.at = "train"

(* C3: in SPADE train() the encoder is optional.  Without E the z of every  *)
(* iteration comes from sampler((batch size, z_dim)) and G_loss never holds *)
(* the KL term; with E, z is E(rgb) and KL_divergence(mu, logvar) *         *)
(* kld_lambda is added to G_loss exactly when kld_lambda > 0.  While E      *)
(* exists the sampler is called neither in training nor in testing.         *)
Thm_C3 ==
    impl = "SPADE" =>
        /\ E => sampler_calls = <<>>
        /\ ~E =>
              /\ \A i \in 1..Len(sampler_calls) :
                    sampler_calls[i].at = "train" =>
                        sampler_calls[i].shape = <<"rgb.size(0)", "z_dim">>
              /\ Len(SelectSeq(sampler_calls, IsTrainCall)) =
                    IF pc \in {"zero_grad", "D_forward"} THEN iters - 1 ELSE iters
        /\ pc \in {"D_backward", "D_step", "G_forward", "G_backward", "G_step", "save"} =>
              /\ env.z = IF E THEN <<"getitem", <<"E", <<"rgb">>>>, <<"0">>>>
                              ELSE <<"sampler">>
              /\ env.fake = <<"G", env.z, <<"line">>>>
        /\ pc \in {"G_backward", "G_step"} \cup AfterSteps =>
              /\ Contains(env.G_loss, "KL_divergence") <=> (E /\ kld_lambda > 0)
              /\ (E /\ kld_lambda > 0) =>
                    /\ env.G_loss[1] = "add"
                    /\ ~Contains(env.G_loss[2], "KL_divergence")
                    /\ env.G_loss[3] =
                         <<"mul",
                           <<"KL_divergence",
                             <<"getitem", <<"E", <<"rgb">>>>, <<"1">>>>,
                             <<"getitem", <<"E", <<"rgb">>>>, <<"2">>>> >>,
                           <<"kld_lambda">> >>

Wit_C3 ==
    /\ impl = "SPADE" /\ E /\ kld_lambda > 0 /\ pc = "G_step" /\ iters = 2
    /\ saved # {}

Heights(t) == [i \in 1..Len(t) |-> t[i][3]]
Widths(t)  == [i \in 1..Len(t) |-> t[i][4]]

(* C4: the cGAN Generator(latent_dim, label_dim) maps noise (N, latent_dim) *)
(* and label (N, label_dim) to (N, 3, 128, 128), through the spatial sizes  *)
(* 1, 4, 8, 16, 32, 64, 128; Discriminator(label_dim) maps that image and   *)
(* the label to (N, 1, 1, 1), through 128, 64, 32, 16, 8, 4, 1; the 128 of  *)
(* _expand_label is the Generator's output size, so the image and the       *)
(* expanded label concatenate.                                              *)
Thm_C4 ==
    impl = "cGAN" =>
        /\ pc # "raised"
        /\ pc = "D.input" =>
              /\ img = <<N, 3, 128, 128>>
              /\ Heights(trail) = <<1, 4, 8, 16, 32, 64, 128>>
              /\ Widths(trail) = <<1, 4, 8, 16, 32, 64, 128>>
              /\ expand_label(N, label_dim) = <<N, label_dim, img[3], img[4]>>
        /\ pc = "D.layers" => trail[1] = <<N, 3 + label_dim, 128, 128>>
        /\ pc = "done" =>
              /\ x = <<N, 1, 1, 1>>
              /\ Heights(trail) = <<128, 64, 32, 16, 8, 4, 1>>
              /\ Widths(trail) = <<128, 64, 32, 16, 8, 4, 1>>

Wit_C4 == impl = "cGAN" /\ pc = "done" /\ N = 2 /\ latent_dim = 2 /\ label_dim = 2

UpSampleOut == <<512, 256, 128, 64, 64>>

(* C5: the pixelshuffle Generator(latent_dim, label_dim) maps noise         *)
(* (N, latent_dim) and integer labels (N,) in [0, label_dim) to             *)
(* (N, 3, 128, 128): the head gives 1024 channels at 4x4, each              *)
(* UpSample(in, out) convolves to 4*out channels and PixelShuffle(2) leaves *)
(* out channels at twice the size, and the tail keeps the size;             *)
(* Discriminator(label_dim) maps the image to a validity (N, 1, 1, 1) and a *)
(* label output (N, label_dim).                                             *)
Thm_C5 ==
    (impl = "pixelshuffle" /\ label_max < label_dim) =>
        /\ pc # "raised"
        /\ pc \in {"G.layers", "D.input"} =>
              /\ Len(trail) >= 2 => trail[2] = <<N, 1024, 4, 4>>
              /\ \A i \in 1..5 :
                    /\ Len(trail) >= 2 * i + 1 =>
                          trail[2 * i + 1] =
                              <<N, 4 * UpSampleOut[i], trail[2 * i][3], trail[2 * i][4]>>
                    /\ Len(trail) >= 2 * i + 2 =>
                          trail[2 * i + 2] =
                              <<N, UpSampleOut[i], 2 * trail[2 * i][3], 2 * trail[2 * i][4]>>
              /\ Len(trail) >= 13 => trail[13] = <<N, 3, trail[12][3], trail[12][4]>>
        /\ pc = "D.input" => img = <<N, 3, 128, 128>> /\ Len(trail) = 13
        /\ pc \in {"D.pool", "D.label", "done"} => validity = <<N, 1, 1, 1>>
        /\ pc = "done" => x = <<N, label_dim>>

Wit_C5 ==
    /\ impl = "pixelshuffle" /\ pc = "done" /\ N = 2 /\ latent_dim = 2
    /\ label_dim = 2 /\ label_max = 1

(* The positions of an iteration that precede status.update().             *)
BeforeUpdate == {"zero_grad", "D_forward", "D_backward", "D_step",
                 "G_forward", "G_backward", "G_step", "save", "status_update"}

(* What C6 says of a state, but for the bound on batches_done.             *)
LoopCount ==
    /\ batches_done = b0 + iters - (IF pc \in BeforeUpdate THEN 1 ELSE 0)
    /\ iters <= Max(0, max_iters - b0)
    /\ pc = "done" =>
          /\ iters = Max(0, max_iters - b0)
          /\ plots = 1
    /\ pc # "done" => plots = 0
    /\ (nbatches = 0 /\ batches_done < max_iters) => pc \in {"while", "for"}

(* An exhausted pass goes back to the while test, which begins another     *)
(* pass when batches are still to be done.                                 *)
Restarts ==
    /\ (pc = "for" /\ idx = nbatches) => pc' = "while"
    /\ (pc = "while" /\ batches_done < max_iters) => (pc' = "for" /\ idx' = 0)

(* C6 as stated: with batches_done starting at b0, update() adding 1 and a  *)
(* dataset of at least one batch, the loop runs max(0, max_iters - b0)      *)
(* iterations, batches_done never exceeds max_iters, and plot_loss() is     *)
(* called once, at the end.                                                 *)
Orig_C6 ==
    impl \in Trainers => (LoopCount /\ batches_done <= max_iters)

(* C6, amended: with batches_done starting at b0, update() adding 1 and a   *)
(* dataset of at least one batch, the loop runs exactly                     *)
(* max(0, max_iters - b0) iterations, restarting the pass over the dataset  *)
(* whenever it is exhausted, batches_done never exceeds the larger of b0    *)
(* and max_iters, and train() terminates after calling status.plot_loss()   *)
(* exactly once.  With a dataset of no batch and batches_done < max_iters   *)
(* the while loop never ends.                                               *)
Thm_C6 ==
    /\ [](impl \in Trainers => (LoopCount /\ batches_done <= Max(b0, max_iters)))
    /\ [][(impl \in Trainers) => Restarts]_vars
    /\ (impl \in Trainers /\ nbatches >= 1) ~> (pc = "done")

Wit_C6 ==
    /\ impl \in Trainers /\ pc = "done" /\ b0 = 1 /\ max_iters = 3
    /\ nbatches = 1 /\ iters = 2 /\ plots = 1

Generators     == {"GA", "GH", "G", "E"}
Discriminators == {"DA", "DH", "D"}

(* C7: in GANILLA and SPADE train() no gradient leaks between the two       *)
(* updates: at the discriminator step the discriminators hold the gradient  *)
(* of this iteration's D_loss and nothing else, and D_loss has given the    *)
(* generators and the encoder nothing (the fakes are detached); at the      *)
(* generator step the generators and the encoder hold the gradient of this  *)
(* iteration's G_loss and nothing else.                                     *)
Thm_C7 ==
    impl \in Trainers =>
        /\ pc = "D_step" =>
              /\ \A m \in Discriminators \cap Built :
                    grad[m] = {<<iters, "D_loss">>}
              /\ \A m \in Generators \cap Built : grad[m] = {}
        /\ pc \in {"G_forward", "G_backward"} =>
              \A m \in Generators \cap Built : grad[m] = {}
        /\ pc = "G_step" =>
              \A m \in Generators \cap Built : grad[m] = {<<iters, "G_loss">>}

Wit_C7 ==
    /\ impl = "SPADE" /\ E /\ pc = "G_step" /\ iters = 2
    /\ grad["E"] = {<<2, "G_loss">>} /\ grad["D"] = {<<2, "D_loss">>, <<2, "G_loss">>}

(* C8: main() partitions the parameters between the optimizers: optimizer_D *)
(* holds the parameters of DA and DH (GANILLA) or of D (SPADE), optimizer_G *)
(* those of GA and GH, or of G and, exactly when the encoder is used, of E. *)
(* So a discriminator step changes no generator or encoder parameter and a  *)
(* generator step changes no discriminator parameter.                       *)
Thm_C8 ==
    /\ [](impl \in Trainers =>
            /\ optimizer_D = Discriminators \cap Built
            /\ optimizer_G = Generators \cap Built
            /\ optimizer_D \cap optimizer_G = {}
            /\ optimizer_D \cup optimizer_G = Built
            /\ ("E" \in optimizer_G <=> (impl = "SPADE" /\ E)))
    /\ [][(impl \in Trainers) =>
            /\ pc = "D_step" => \A m \in Generators : version'[m] = version[m]
            /\ pc = "G_step" => \A m \in Discriminators : version'[m] = version[m]
            /\ pc \notin {"D_step", "G_step"} => version' = version]_vars

Wit_C8 ==
    /\ impl = "SPADE" /\ E /\ pc = "G_forward" /\ iters = 2
    /\ version["D"] = 2 /\ version["G"] = 1 /\ version["E"] = 1

(* C9: in GANILLA and SPADE train() the scaler is used consistently.  With  *)
(* amp, every iteration back-propagates both losses through                 *)
(* scaler.scale(loss), steps both optimizers through scaler.step() only,    *)
(* and calls scaler.update() once, after both steps and after               *)
(* status.update(); without amp there is no GradScaler and both optimizers  *)
(* are stepped directly.  No iteration mixes the two.                       *)
Thm_C9 ==
    impl \in Trainers =>
        /\ scaler # "None" <=> amp
        /\ \A i \in 1..Len(events) :
              IF amp THEN events[i][1] \notin {"backward", "step"}
              ELSE events[i][1] \notin {"scaler.scale.backward", "scaler.step",
                                        "scaler.update"}
        /\ pc = "break" =>
              SelectSeq(events, NotSetupOrSave) =
                  IF amp
                  THEN << <<"scaler.scale.backward", "D_loss">>, <<"scaler.step", "D">>,
                          <<"scaler.scale.backward", "G_loss">>, <<"scaler.step", "G">>,
                          <<"status.update", "loss_dict">>, <<"scaler.update", "">> >>
                  ELSE << <<"backward", "D_loss">>, <<"step", "D">>,
                          <<"backward", "G_loss">>, <<"step", "G">>,
                          <<"status.update", "loss_dict">> >>

Wit_C9 ==
    /\ impl \in Trainers /\ amp /\ pc = "break" /\ iters = 2
    /\ events[Len(events)] = <<"scaler.update", "">>

(* C10: in GANILLA and SPADE train(), with save > 0, an iteration writes    *)
(* test images and checkpoints if and only if batches_done, read after both *)
(* optimizer steps and before status.update(), is a multiple of save, and   *)
(* the files carry that value.  So no checkpoint is labelled max_iters, and *)
(* the parameters after the last iteration are saved only when              *)
(* max_iters - 1 is a multiple of save.                                     *)
Thm_C10 ==
    impl \in Trainers =>
        /\ \A c \in saved :
              /\ c.label % save = 0
              /\ c.label = b0 + c.iter - 1
              /\ c.label # max_iters
        /\ pc \in {"status_update"} =>
              /\ (\E c \in saved : c.iter = iters) <=> (batches_done % save = 0)
              /\ \A c \in saved : c.iter = iters =>
                    /\ c.label = batches_done
                    /\ c.params = [m \in Checkpointed |-> version[m]]
              /\ \E how \in {"step", "scaler.step"}, back \in {"backward", "scaler.scale.backward"} :
                    SelectSeq(events, NotSetup) =
                        << <<back, "D_loss">>, <<how, "D">>,
                           <<back, "G_loss">>, <<how, "G">> >>
                        \o (IF batches_done % save = 0
                            THEN << <<"save", "result">> >> ELSE <<>>)
        /\ pc = "done" =>
              /\ (\E c \in saved : c.iter = iters)
                    <=> (iters > 0 /\ (max_iters - 1) % save = 0)
              /\ \A c \in saved : c.iter = iters =>
                    c.params = [m \in Checkpointed |-> version[m]]

Wit_C10 ==
    /\ impl \in Trainers /\ pc = "done" /\ save = 2 /\ max_iters = 3 /\ b0 = 0
    /\ \E c \in saved : c.iter = 3 /\ c.label = 2

====
